---- MODULE Spec2Model ----
(***************************************************************************)
(* Model of scripts/remove_screenshot_data.py: main() and                  *)
(* remove_screenshots_from_json(), together with the parts of the host     *)
(* they act on (the files named on the command line, json.load and         *)
(* json.dump as CPython implements them).                                  *)
(***************************************************************************)
EXTENDS Integers, Sequences, FiniteSets, TLC

VARIABLES
  argv,           \* sys.argv[1:], the paths given on the command line
  fs,             \* the content of every path
  diskFull,       \* the device refuses the bytes of a write
  pc,             \* the statement the invocation is at
  input_file,     \* main's and the function's input_file
  output_file,    \* main's and the function's output_file
  data,           \* the parsed document, mutated in place
  loaded,         \* the document as json.load returned it
  removed_count,  \* the removal counter
  exit_code,      \* the exit status of the invocation
  stdout,         \* the report printed
  written,        \* the paths this invocation opened for writing
  run,            \* the number of the invocation
  prevOut         \* the file the previous invocation wrote

vars == <<argv, fs, diskFull, pc, input_file, output_file, data, loaded,
          removed_count, exit_code, stdout, written, run, prevOut>>

(***************************************************************************)
(* Bounds of the model.                                                    *)
(***************************************************************************)
MaxLen == 2
MaxKeys == 2
MaxRuns == 2

(***************************************************************************)
(* Every JSON text, Python value and file content is a node               *)
(* [k: kind, s: payload, c: children].                                     *)
(***************************************************************************)
Node(k, s, c) == [k |-> k, s |-> s, c |-> c]

\* JSON text as stored in a file (what json.load reads, json.dump writes).
TNull == Node("null", "", <<>>)
TStr(x) == Node("string", x, <<>>)
TNum(x) == Node("number", x, <<>>)
TArr(items) == Node("array", "", items)
TMember(key, val) == Node("member", key, <<val>>)
TObj(members) == Node("object", "", members)

\* File contents that are not a JSON text.
Missing == Node("missing", "", <<>>)
Garbage == Node("invalid", "{not valid json", <<>>)
Empty == Node("invalid", "", <<>>)
Truncated == Node("invalid", "truncated", <<>>)

\* Python values json.load builds.
PyNone == Node("None", "", <<>>)
PyStr(x) == Node("str", x, <<>>)
PyInt(x) == Node("int", x, <<>>)
PyFloat(x) == Node("float", x, <<>>)
PyList(items) == Node("list", "", items)
PyItem(key, val) == Node("item", key, <<val>>)
PyDict(items) == Node("dict", "", items)

\* The string "\ud800": a lone surrogate, legal in JSON text as an escape,
\* not encodable as UTF-8.
Surrogate == "\\ud800"

(***************************************************************************)
(* dict operations                                                         *)
(***************************************************************************)
\* key in d
HasKey(d, key) == \E i \in 1..Len(d.c) : d.c[i].s = key

\* d[key]
GetItem(d, key) == d.c[CHOOSE i \in 1..Len(d.c) : d.c[i].s = key].c[1]

\* Variant of SetItem: the key is deleted and inserted again, at the end.
SetItem_Reinsert(items, key, val) ==
  Append(SelectSeq(items, LAMBDA it : it.s # key), PyItem(key, val))

\* d[key] = val on the item list of a dict: an existing key keeps its
\* position, a new key goes last.
SetItem(items, key, val) ==
  IF \E i \in 1..Len(items) : items[i].s = key
  THEN [i \in 1..Len(items) |->
          IF items[i].s = key THEN PyItem(key, val) ELSE items[i]]
  ELSE Append(items, PyItem(key, val))

(***************************************************************************)
(* json.load                                                               *)
(***************************************************************************)
IsJSONText(t) == t.k \in {"null", "string", "number", "array", "object"}

RECURSIVE json_load(_)
RECURSIVE LoadMembers(_, _)

\* The members of an object, in text order, stored into a dict.
LoadMembers(members, acc) ==
  IF members = <<>> THEN acc
  ELSE LoadMembers(Tail(members),
                   SetItem(acc, Head(members).s, json_load(Head(members).c[1])))

json_load(t) ==
  CASE t.k = "null" -> PyNone
    [] t.k = "string" -> PyStr(t.s)
    [] t.k = "number" ->
         IF t.s \in {"1e999", "Infinity"} THEN PyFloat("inf") ELSE PyInt(t.s)
    [] t.k = "array" -> PyList([i \in 1..Len(t.c) |-> json_load(t.c[i])])
    [] t.k = "object" -> PyDict(LoadMembers(t.c, <<>>))

(***************************************************************************)
(* json.dump                                                               *)
(***************************************************************************)
RECURSIVE json_dump(_)
json_dump(v) ==
  CASE v.k = "None" -> TNull
    [] v.k = "str" -> TStr(v.s)
    [] v.k = "int" -> TNum(v.s)
    [] v.k = "float" -> TNum(IF v.s = "inf" THEN "Infinity" ELSE v.s)
    [] v.k = "list" -> TArr([i \in 1..Len(v.c) |-> json_dump(v.c[i])])
    [] v.k = "dict" ->
         TObj([i \in 1..Len(v.c) |-> TMember(v.c[i].s, json_dump(v.c[i].c[1]))])

\* Every chunk json.dump hands to the UTF-8 file can be encoded.
RECURSIVE Encodable(_)
Encodable(v) ==
  /\ v.k \in {"str", "item"} => v.s # Surrogate
  /\ \A i \in 1..Len(v.c) : Encodable(v.c[i])

(***************************************************************************)
(* The transformation of remove_screenshots_from_json                      *)
(***************************************************************************)
\* Variant of CountOne: the test for None is left out.
CountOne_AnyKey(d) == IF HasKey(d, "screenshot") THEN 1 ELSE 0

\* One object: count it when "screenshot" is present and not None.
CountOne(d) ==
  IF HasKey(d, "screenshot") /\ GetItem(d, "screenshot") # PyNone THEN 1 ELSE 0

\* Variant of StripOne: the assignment of None is left out.
StripOne_Keep(d) == d

\* Variant of StripOne: the key is deleted instead of set to None.
StripOne_Delete(d) ==
  PyDict(SelectSeq(d.c, LAMBDA it : it.s # "screenshot"))

\* One object: "screenshot" is set to None when present.
StripOne(d) ==
  IF HasKey(d, "screenshot")
  THEN PyDict(SetItem(d.c, "screenshot", PyNone))
  ELSE d

\* The for loop over a list: the count after the first n items.
RECURSIVE CountList(_, _)
CountList(items, n) ==
  IF n = 0 THEN 0
  ELSE CountList(items, n - 1)
       + (IF items[n].k = "dict" THEN CountOne(items[n]) ELSE 0)

\* The for loop over a list: the items after the loop.
StripList(items) ==
  [i \in 1..Len(items) |->
     IF items[i].k = "dict" THEN StripOne(items[i]) ELSE items[i]]

Cleaned(v) ==
  IF v.k = "list" THEN PyList(StripList(v.c))
  ELSE IF v.k = "dict" THEN StripOne(v)
  ELSE v

Removed(v) ==
  IF v.k = "list" THEN CountList(v.c, Len(v.c))
  ELSE IF v.k = "dict" THEN CountOne(v)
  ELSE 0

(***************************************************************************)
(* The host: paths, open(), os.path.exists                                 *)
(***************************************************************************)
Paths == {"a.json", "b.json", "nodir/c.json", "locked.json"}

\* The directory of the path does not exist.
NoParent(p) == p = "nodir/c.json"

\* The file exists with no permission bit set.
Denied(p) == p = "locked.json"

exists(p) == fs[p] # Missing

\* open(p, "r"): "ok" or the exception raised.
open_r(p) ==
  IF fs[p] = Missing THEN "FileNotFoundError"
  ELSE IF Denied(p) THEN "PermissionError"
  ELSE "ok"

\* open(p, "w"): "ok" or the exception raised.
open_w(p) ==
  IF NoParent(p) THEN "FileNotFoundError"
  ELSE IF Denied(p) THEN "PermissionError"
  ELSE "ok"

(***************************************************************************)
(* Reports and exit statuses                                               *)
(***************************************************************************)
None == "None"
Unset == Node("unset", "", <<>>)
NoExit == -1

MsgUsage == "Usage: python remove_screenshot_data.py <input_file> [output_file]"
MsgNotExist == "Error: Input file {input_file} does not exist"
MsgNotFound == "Error: File {input_file} not found"
MsgInvalid == "Error: Invalid JSON in {input_file}: {e}"
MsgProcessing == "Error processing file: {e}"
MsgSuccess == "Successfully processed {input_file}"

\* Variant of Handler: no clause for FileNotFoundError.
Handler_NoNotFound(exc) ==
  IF exc = "JSONDecodeError" THEN MsgInvalid ELSE MsgProcessing

\* The except clauses of remove_screenshots_from_json, in order.
Handler(exc) ==
  IF exc = "FileNotFoundError" THEN MsgNotFound
  ELSE IF exc = "JSONDecodeError" THEN MsgInvalid
  ELSE MsgProcessing

\* sys.exit(1)
ExitFailure == 1

\* Variant of Raise: the handler ends with status 0.
Raise_Swallow(exc) ==
  /\ stdout' = Handler(exc)
  /\ exit_code' = 0
  /\ pc' = "done"

\* An exception raised inside the try block.
Raise(exc) ==
  /\ stdout' = Handler(exc)
  /\ exit_code' = ExitFailure
  /\ pc' = "done"

(***************************************************************************)
(* The input documents                                                     *)
(***************************************************************************)
SeqsUpTo(S, n) == UNION {[1..m -> S] : m \in 0..n}

NestedObj == TObj(<<TMember("screenshot", TStr("AAAA"))>>)
NestedArr == TArr(<<NestedObj>>)

MemberSet ==
  {TMember("screenshot", TStr("AAAA")), TMember("screenshot", TNull),
   TMember("id", TNum("1")), TMember("id", NestedObj),
   TMember("meta", NestedArr)}

\* Root objects: every sequence of at most MaxKeys members.
Objects == {TObj(ms) : ms \in SeqsUpTo(MemberSet, MaxKeys)}

\* Array elements: objects with the key present and not null, present and
\* null, absent, first, repeated, nested; no key at all; non-objects.
Elements ==
  {TObj(<<TMember("id", TNum("1")), TMember("screenshot", TStr("AAAA"))>>),
   TObj(<<TMember("id", TNum("2")), TMember("screenshot", TNull)>>),
   TObj(<<TMember("id", TNum("3"))>>),
   TObj(<<TMember("screenshot", TStr("AAAA")), TMember("id", NestedObj)>>),
   TObj(<<TMember("meta", NestedArr)>>),
   TObj(<<TMember("screenshot", TStr("AAAA")), TMember("screenshot", TNull)>>),
   TObj(<<>>),
   TNum("1"),
   NestedArr}

\* Root arrays: every sequence of at most MaxLen elements.
Arrays == {TArr(es) : es \in SeqsUpTo(Elements, MaxLen)}
Scalars == {TNull, TNum("1"), TStr("AAAA")}
Docs == Arrays \cup Objects \cup Scalars

\* [{"id":1,"screenshot":"AAAA"},{"id":2,"screenshot":null},{"id":3}]
ExampleDoc ==
  TArr(<<TObj(<<TMember("id", TNum("1")), TMember("screenshot", TStr("AAAA"))>>),
         TObj(<<TMember("id", TNum("2")), TMember("screenshot", TNull)>>),
         TObj(<<TMember("id", TNum("3"))>>)>>)

\* Documents with a lone surrogate, a number beyond the range of a double,
\* a repeated key.
SpecialDocs ==
  {ExampleDoc,
   TStr(Surrogate),
   TArr(<<TStr("AAAA"), TStr(Surrogate)>>),
   TObj(<<TMember("screenshot", TStr(Surrogate))>>),
   TObj(<<TMember("screenshot", TStr("AAAA")), TMember("id", TStr(Surrogate))>>),
   TObj(<<TMember(Surrogate, TNum("1"))>>),
   TNum("1e999"),
   TArr(<<TObj(<<TMember("screenshot", TStr("AAAA")), TMember("id", TNum("1e999")),
                 TMember("screenshot", TNull)>>)>>)}

Contents == SpecialDocs \cup {Missing, Garbage}

(***************************************************************************)
(* Initial states                                                          *)
(***************************************************************************)
Init ==
  /\ \/ /\ argv \in {<<"a.json">>, <<"a.json", "b.json">>}
        /\ \E d \in Docs :
             fs = [p \in Paths |->
                     IF p = "a.json" THEN d
                     ELSE IF Denied(p) THEN ExampleDoc ELSE Missing]
        /\ diskFull = FALSE
     \/ /\ argv \in SeqsUpTo(Paths, 2)
        /\ \E d \in Contents, e \in {Missing, ExampleDoc} :
             fs = [p \in Paths |->
                     IF p = "a.json" THEN d
                     ELSE IF p = "b.json" THEN e
                     ELSE IF Denied(p) THEN ExampleDoc ELSE Missing]
        /\ diskFull \in BOOLEAN
  /\ pc = "main"
  /\ input_file = None
  /\ output_file = None
  /\ data = Unset
  /\ loaded = Unset
  /\ removed_count = 0
  /\ exit_code = NoExit
  /\ stdout = ""
  /\ written = {}
  /\ run = 1
  /\ prevOut = Missing

(***************************************************************************)
(* main                                                                    *)
(***************************************************************************)
\* The argument check and the two assignments from sys.argv.
Main ==
  /\ pc = "main"
  /\ IF Len(argv) < 1
     THEN /\ stdout' = MsgUsage
          /\ exit_code' = ExitFailure
          /\ pc' = "done"
          /\ UNCHANGED <<input_file, output_file>>
     ELSE /\ input_file' = argv[1]
          /\ output_file' = IF Len(argv) > 1 THEN argv[2] ELSE None
          /\ pc' = "exists"
          /\ UNCHANGED <<stdout, exit_code>>
  /\ UNCHANGED <<argv, fs, diskFull, data, loaded, removed_count, written,
                 run, prevOut>>

\* The os.path.exists check, then the call.
CheckExists ==
  /\ pc = "exists"
  /\ IF ~exists(input_file)
     THEN /\ stdout' = MsgNotExist
          /\ exit_code' = ExitFailure
          /\ pc' = "done"
     ELSE /\ pc' = "call"
          /\ UNCHANGED <<stdout, exit_code>>
  /\ UNCHANGED <<argv, fs, diskFull, input_file, output_file, data, loaded,
                 removed_count, written, run, prevOut>>

\* Another process removes the input file between the check and the open.
InputVanishes ==
  /\ pc = "call"
  /\ exists(input_file)
  /\ fs' = [fs EXCEPT ![input_file] = Missing]
  /\ UNCHANGED <<argv, diskFull, pc, input_file, output_file, data, loaded,
                 removed_count, exit_code, stdout, written, run, prevOut>>

(***************************************************************************)
(* remove_screenshots_from_json                                            *)
(***************************************************************************)
\* Variant of DefaultOutput: the output path given is ignored.
DefaultOutput_Ignore(inp, out) == inp

\* if output_file is None: output_file = input_file
DefaultOutput(inp, out) == IF out = None THEN inp ELSE out

\* The default of output_file, open(input_file, "r") and json.load.
Load ==
  /\ pc = "call"
  /\ output_file' = DefaultOutput(input_file, output_file)
  /\ IF open_r(input_file) # "ok"
     THEN /\ Raise(open_r(input_file))
          /\ UNCHANGED <<data, loaded>>
     ELSE IF ~IsJSONText(fs[input_file])
     THEN /\ Raise("JSONDecodeError")
          /\ UNCHANGED <<data, loaded>>
     ELSE /\ data' = json_load(fs[input_file])
          /\ loaded' = json_load(fs[input_file])
          /\ pc' = "transform"
          /\ UNCHANGED <<stdout, exit_code>>
  /\ UNCHANGED <<argv, fs, diskFull, input_file, removed_count, written,
                 run, prevOut>>

\* removed_count = 0 and the two branches on the shape of data.
Transform ==
  /\ pc = "transform"
  /\ removed_count' = Removed(data)
  /\ data' = Cleaned(data)
  /\ pc' = "open"
  /\ UNCHANGED <<argv, fs, diskFull, input_file, output_file, loaded,
                 exit_code, stdout, written, run, prevOut>>

\* open(output_file, "w"): the file is created or truncated.
OpenOutput ==
  /\ pc = "open"
  /\ IF open_w(output_file) # "ok"
     THEN /\ Raise(open_w(output_file))
          /\ UNCHANGED <<fs, written>>
     ELSE /\ fs' = [fs EXCEPT ![output_file] = Empty]
          /\ written' = written \cup {output_file}
          /\ pc' = "dump"
          /\ UNCHANGED <<stdout, exit_code>>
  /\ UNCHANGED <<argv, diskFull, input_file, output_file, data, loaded,
                 removed_count, run, prevOut>>

\* What the file holds when json.dump raises part-way: nothing when the
\* first chunk is the one refused, a prefix of the text otherwise.
Partial(v) == IF v.c = <<>> THEN {Empty} ELSE {Empty, Truncated}

\* json.dump(data, f, indent=2, ensure_ascii=False), the close of the file
\* and the three prints.
Dump ==
  /\ pc = "dump"
  /\ IF ~Encodable(data)
     THEN /\ \E t \in Partial(data) : fs' = [fs EXCEPT ![output_file] = t]
          /\ Raise("UnicodeEncodeError")
     ELSE IF diskFull
     THEN /\ \E t \in Partial(data) : fs' = [fs EXCEPT ![output_file] = t]
          /\ Raise("OSError")
     ELSE /\ fs' = [fs EXCEPT ![output_file] = json_dump(data)]
          /\ stdout' = MsgSuccess
          /\ exit_code' = 0
          /\ pc' = "done"
  /\ UNCHANGED <<argv, diskFull, input_file, output_file, data, loaded,
                 removed_count, written, run, prevOut>>

\* The tool is run again on the file it has just written.
Rerun ==
  /\ pc = "done"
  /\ exit_code = 0
  /\ run < MaxRuns
  /\ argv' \in {<<output_file>>, <<output_file, "b.json">>}
  /\ prevOut' = fs[output_file]
  /\ run' = run + 1
  /\ pc' = "main"
  /\ input_file' = None
  /\ output_file' = None
  /\ data' = Unset
  /\ loaded' = Unset
  /\ removed_count' = 0
  /\ exit_code' = NoExit
  /\ stdout' = ""
  /\ written' = {}
  /\ UNCHANGED <<fs, diskFull>>

Next ==
  \/ Main
  \/ CheckExists
  \/ InputVanishes
  \/ Load
  \/ Transform
  \/ OpenOutput
  \/ Dump
  \/ Rerun

Spec == Init /\ [][Next]_vars

FairSpec == Spec /\ WF_vars(Next)

(***************************************************************************)
(* Vocabulary of the properties                                            *)
(***************************************************************************)
Done == pc = "done"
Succeeded == pc = "done" /\ exit_code = 0

\* The document the output path holds, as a reader parses it.
OutDoc == json_load(fs[output_file])

\* The object has a "screenshot" key whose value is not null.
NonNullShot(d) ==
  \E i \in 1..Len(d.c) : d.c[i].s = "screenshot" /\ d.c[i].c[1].k # "None"

\* The object has a "screenshot" key whose value is null.
NullShot(d) ==
  \E i \in 1..Len(d.c) : d.c[i].s = "screenshot" /\ d.c[i].c[1].k = "None"

IsArrayOfObjects(v) ==
  v.k = "list" /\ \A i \in 1..Len(v.c) : v.c[i].k = "dict"

\* A scalar, or an array none of whose elements is an object.
IsOtherShape(v) ==
  \/ v.k \in {"None", "str", "int", "float"}
  \/ v.k = "list" /\ \A i \in 1..Len(v.c) : v.c[i].k # "dict"

\* Object b is object a up to the value of a top-level "screenshot" key.
SameButShot(a, b) ==
  /\ b.k = "dict"
  /\ Len(b.c) = Len(a.c)
  /\ \A i \in 1..Len(a.c) :
       /\ b.c[i].s = a.c[i].s
       /\ a.c[i].s # "screenshot" => b.c[i] = a.c[i]

\* The number of direct elements of the array that carry a non-null
\* "screenshot".
NonNullElements(v) ==
  Cardinality({i \in 1..Len(v.c) : v.c[i].k = "dict" /\ NonNullShot(v.c[i])})

(***************************************************************************)
(* Properties                                                              *)
(***************************************************************************)

\* C1: after a successful run on an array of objects the output is an array
\* of the same length, every element that had a non-null screenshot has
\* screenshot null, and the count is the number of those elements.
C1_ArrayStripped ==
  (Succeeded /\ IsArrayOfObjects(loaded)) =>
     /\ OutDoc.k = "list"
     /\ Len(OutDoc.c) = Len(loaded.c)
     /\ \A i \in 1..Len(loaded.c) :
          NonNullShot(loaded.c[i]) =>
             OutDoc.c[i].k = "dict" /\ NullShot(OutDoc.c[i])
     /\ removed_count = NonNullElements(loaded)

C1_Witness ==
  /\ Succeeded
  /\ run = 1
  /\ loaded = json_load(ExampleDoc)
  /\ removed_count = 1
  /\ written = {output_file}

\* C2: a successful run changes nothing but the value of a screenshot key at
\* the top level of the root object or of an object that is a direct element
\* of the root array: same structure, keys and key order; elements without a
\* non-null screenshot and non-object elements are unchanged and not
\* counted; nested screenshot keys are neither nulled nor counted.
C2_Frame ==
  Succeeded =>
     IF loaded.k = "list"
     THEN /\ OutDoc.k = "list"
          /\ Len(OutDoc.c) = Len(loaded.c)
          /\ \A i \in 1..Len(loaded.c) :
               IF loaded.c[i].k = "dict" /\ NonNullShot(loaded.c[i])
               THEN SameButShot(loaded.c[i], OutDoc.c[i])
               ELSE OutDoc.c[i] = loaded.c[i]
          /\ removed_count <= NonNullElements(loaded)
     ELSE IF loaded.k = "dict"
     THEN /\ SameButShot(loaded, OutDoc)
          /\ ~NonNullShot(loaded) => OutDoc = loaded /\ removed_count = 0
     ELSE OutDoc = loaded

\* A run on an array holding a non-object element and an object whose
\* screenshot key comes first and whose other key has a nested screenshot.
C2_Witness ==
  /\ Succeeded
  /\ loaded.k = "list"
  /\ \E i, j \in 1..Len(loaded.c) :
       /\ loaded.c[i].k # "dict"
       /\ loaded.c[j].k = "dict"
       /\ Len(loaded.c[j].c) = 2
       /\ loaded.c[j].c[1].s = "screenshot"
       /\ loaded.c[j].c[1].c[1].k # "None"
       /\ loaded.c[j].c[2].c[1].k = "dict"
       /\ NonNullShot(loaded.c[j].c[2].c[1])
       /\ OutDoc.c[j].c[2] = loaded.c[j].c[2]

\* C3: with no output path the run writes the transformed document to the
\* input path; with an output path distinct from the input path every step
\* of the run, successful or not, leaves every path but the output path as
\* it was, the input path included.
C3_OutputPath ==
  /\ [](Succeeded /\ Len(argv) = 1 =>
           /\ written = {argv[1]}
           /\ fs[argv[1]] = json_dump(data))
  /\ [](Len(argv) = 1 => written \subseteq {argv[1]})
  /\ [][(pc' # pc /\ Len(argv) = 2 /\ argv[2] # argv[1]) =>
           /\ \A p \in Paths \ {argv[2]} : fs'[p] = fs[p]
           /\ written' \subseteq {argv[2]}]_vars

C3_Witness ==
  /\ Succeeded
  /\ Len(argv) = 2
  /\ argv[2] # argv[1]
  /\ written = {argv[2]}
  /\ fs[argv[2]] = json_dump(data)
  /\ json_load(fs[argv[1]]) = loaded
  /\ removed_count > 0

\* C4: a run that fails leaves no path with emptied or truncated content.
C4_AllOrNothing ==
  (Done /\ exit_code # 0) =>
     \A p \in Paths : fs[p] \notin {Empty, Truncated}

\* C5: a run on the output of a successful run reports count 0 and writes
\* the same JSON content.
C5_Idempotent ==
  (Succeeded /\ run > 1) =>
     /\ removed_count = 0
     /\ fs[output_file] = prevOut

C5_Witness ==
  /\ Succeeded
  /\ run = 2
  /\ written = {output_file}
  /\ prevOut.k = "array"
  /\ \E i \in 1..Len(loaded.c) : loaded.c[i].k = "dict" /\ NullShot(loaded.c[i])

\* C6: a run on a scalar or an array of non-objects, with an output path
\* that can be written, succeeds with the output equal to the input and
\* count 0.
C6_PassThrough ==
  (Done /\ loaded # Unset /\ IsOtherShape(loaded)
        /\ open_w(output_file) = "ok" /\ ~diskFull) =>
     /\ exit_code = 0
     /\ removed_count = 0
     /\ OutDoc = loaded

\* C7: a successful run on a single object keeps its keys; the count is 1
\* and screenshot is null when it had a non-null screenshot, the count is 0
\* otherwise.
C7_SingleObject ==
  (Succeeded /\ loaded.k = "dict") =>
     /\ OutDoc.k = "dict"
     /\ [i \in 1..Len(OutDoc.c) |-> OutDoc.c[i].s]
          = [i \in 1..Len(loaded.c) |-> loaded.c[i].s]
     /\ removed_count = (IF NonNullShot(loaded) THEN 1 ELSE 0)
     /\ (NonNullShot(loaded) \/ NullShot(loaded)) => NullShot(OutDoc)

C7_Witness ==
  /\ Succeeded
  /\ loaded.k = "dict"
  /\ Len(loaded.c) = 2
  /\ NonNullShot(loaded)
  /\ removed_count = 1

\* C8: an invocation whose input path does not exist ends with status 1 and
\* the "does not exist" or the "not found" report, having opened no file
\* for writing.
C8_MissingInput ==
  (Done /\ Len(argv) >= 1 /\ fs[argv[1]] = Missing) =>
     /\ exit_code = 1
     /\ stdout \in {MsgNotExist, MsgNotFound}
     /\ written = {}
     /\ \A p \in Paths : fs[p] \notin {Empty, Truncated}

\* The input was there at the check and gone at the open.
C8_Witness ==
  /\ Done
  /\ Len(argv) = 2
  /\ fs[argv[1]] = Missing
  /\ stdout = MsgNotFound
  /\ exit_code = 1

\* C9: an invocation ends, with one exit status: 0 exactly when the
\* document was read, transformed and written, 1 otherwise; nothing follows
\* a failure.
C9_ExitStatus ==
  /\ [](IF Done
        THEN /\ exit_code \in {0, 1}
             /\ exit_code = 0 <=>
                  /\ loaded # Unset
                  /\ written = {output_file}
                  /\ fs[output_file] = json_dump(data)
             /\ Len(argv) = 0 => exit_code = 1
        ELSE exit_code = NoExit)
  /\ [][exit_code # 1]_vars
  /\ <>Done

C9_Witness ==
  /\ Succeeded
  /\ removed_count = 0
  /\ loaded.k = "list"
  /\ Len(loaded.c) > 0

\* C10: "not found" and "does not exist" are reported only when the input
\* path is missing, "invalid JSON" only when the input is not JSON.
C10_ErrorKinds ==
  Done =>
     /\ stdout \in {MsgNotFound, MsgNotExist} => fs[input_file] = Missing
     /\ stdout = MsgInvalid => ~IsJSONText(fs[input_file])

====
